---- MODULE Spec2Model ----
(***************************************************************************)
(* Session lifecycle of the pairing backend (backend/src/app.js): the      *)
(* activeConnections registry, the per-session storage directories, the    *)
(* connection.update / creds.update listeners, the four HTTP handlers,     *)
(* cleanupSession, the download grace timer and the hourly expiry sweep.   *)
(* Node runs every handler and timer callback to completion, so each       *)
(* synchronous stretch of code (up to the next await) is one action.       *)
(* What a handler sends back is a function of the state it runs in and of  *)
(* its input: the ...Response operators.                                   *)
(*                                                                         *)
(* The status polling of the page (frontend/src/app.js, function App) is   *)
(* a second specification, FrontendSpec: the useState values, the          *)
(* setInterval timers with the render each callback closes over, and the   *)
(* axios requests under way; what the server answers is an input.          *)
(***************************************************************************)
EXTENDS Integers, Sequences, FiniteSets, TLC

\* ---- bounds of the model ----------------------------------------------
MaxSessions == 1      \* session ids uuidv4 hands out
MaxTicks == 3         \* runs of the expiry sweep
MaxTimers == 1        \* pending download grace timers per session

\* ---- program constants -------------------------------------------------
MaxAgeMinutes == 120
SweepPeriodMs == 3600000
MsPerMinute == 60000
DisconnectReason_loggedOut == "loggedOut"

Ids == 1..MaxSessions
NULL == [absent |-> TRUE]
NoQr == "undefined"
QrPayloads == {"qr1", "qr2"}

\* req.body of POST /api/generate-pair-code: phoneNumber may be missing,
\* the empty string, or a non-empty string.
Bodies == { [has |-> FALSE, phoneNumber |-> <<>>],
            [has |-> TRUE, phoneNumber |-> <<>>],
            [has |-> TRUE, phoneNumber |-> <<"+", "1", "5">>] }

\* the update objects the socket hands to the connection.update listener:
\* a partial state with neither of the fields the listener reads, with a
\* new qr, or with a new connection value (lastDisconnect comes with "close")
Updates ==
  { [connection |-> "undefined", statusCode |-> "undefined", qr |-> NoQr],
    [connection |-> "undefined", statusCode |-> "undefined", qr |-> "qr1"],
    [connection |-> "undefined", statusCode |-> "undefined", qr |-> "qr2"],
    [connection |-> "open", statusCode |-> "undefined", qr |-> NoQr],
    [connection |-> "close", statusCode |-> DisconnectReason_loggedOut, qr |-> NoQr],
    [connection |-> "close", statusCode |-> "connectionLost", qr |-> NoQr] }

VARIABLES
  activeConnections,  \* sessionId -> record, or NULL when the key is absent
  dirs,               \* session ids whose directory exists under SESSIONS_DIR
  credsFiles,         \* session ids whose directory holds creds.json
  sock,               \* per id: "none" (no socket made), "open", "ended"
  pc,                 \* per id: where the generate-pair-code request stands
  timers,             \* per id: pending setTimeout(cleanupSession, 5000)
  now                 \* wall clock in ms since the process started, as of
                      \* the last run of the expiry sweep

vars == <<activeConnections, dirs, credsFiles, sock, pc, timers, now>>

\* code is the HTTP status; kind says what the body is; sessionId, status
\* and qr are the body's fields where it has them.
Response(code, kind, sessionId, status, qr) ==
  [code |-> code, kind |-> kind, sessionId |-> sessionId, status |-> status, qr |-> qr]
ErrorResponse(code, message) == Response(code, message, 0, "undefined", NoQr)

\* ---- frontend: function App, its state and what the browser holds for it

MaxIntervals == 2

IntervalIds == 1..MaxIntervals
NoInterval == 0                        \* statusCheckInterval is null
NotMounted == [mounted |-> FALSE]     \* no page has loaded App
PhoneInputs == {"", "123"}
\* what a check-status request comes back with: the status of a 200, or the
\* 404 of an id the server does not have, which axios throws
PollResults == {"connecting", "connected", "failed", "notFound"}

VARIABLES
  app,        \* the useState values of App: phoneNumber, sessionId, status,
              \* error, statusCheckInterval
  intervals,  \* the setInterval timers made so far, by id: the session polled,
              \* the statusCheckInterval of the render whose checkStatus the
              \* callback calls, whether the timer is live, and the result of
              \* the last check-status request of this timer that came back
  requests    \* axios requests not yet settled: the POST of generatePairCode,
              \* with the statusCheckInterval of the render it was clicked
              \* in, and the GET of checkStatus, with the id of its timer

feVars == <<app, intervals, requests>>
allVars == <<vars, feVars>>

\* the requests under way
PostRequest(statusCheckInterval) ==
  [url |-> "/api/generate-pair-code", statusCheckInterval |-> statusCheckInterval]
GetRequest(k) == [url |-> "/api/check-status", interval |-> k]

\* the server has started
ServerInit ==
  /\ activeConnections = [s \in Ids |-> NULL]
  /\ dirs = {}
  /\ credsFiles = {}
  /\ sock = [s \in Ids |-> "none"]
  /\ pc = [s \in Ids |-> "free"]
  /\ timers = [s \in Ids |-> 0]
  /\ now = 0

\* the server has started and no page is open
Init ==
  /\ ServerInit
  /\ app = NotMounted
  /\ intervals = <<>>
  /\ requests = {}

\* the server has started and a page has rendered App for the first time
FrontendInit ==
  /\ ServerInit
  /\ app = [phoneNumber |-> "", sessionId |-> 0, status |-> "idle", error |-> "",
            statusCheckInterval |-> NoInterval]
  /\ intervals = <<>>
  /\ requests = {}

\* ---- POST /api/generate-pair-code --------------------------------------

\* a handler that only looks whether the field is there
PhoneMissingNoEmptyCheck(body) == ~body.has

\* !phoneNumber
PhoneMissing(body) == ~body.has \/ Len(body.phoneNumber) = 0

\* uuidv4(): an id no earlier request was given
FreshIds == {s \in Ids : pc[s] = "free"}
uuidv4 == CHOOSE s \in FreshIds : \A t \in FreshIds : s <= t

\* catch (error) { res.status(500) }: the request ends, nothing is undone
CreateFails(s) == pc' = [pc EXCEPT ![s] = "failed"]

\* what the request that was given id s has been answered, once it has
GenerateResponse(s) ==
  IF pc[s] = "done" THEN Response(200, "code", s, "undefined", NoQr)
  ELSE IF pc[s] = "failed" THEN ErrorResponse(500, "Failed to generate pair code")
  ELSE ErrorResponse(0, "pending")

\* what a request is answered before any id is generated, if it is
ValidationResponse(body) ==
  IF PhoneMissing(body) THEN ErrorResponse(400, "Phone number is required")
  ELSE ErrorResponse(0, "pending")

\* the directories, and where each request stands, once the handler has run
\* up to `await useMultiFileAuthState`: validation, uuidv4, mkdirSync (which
\* may throw).  Nothing else is touched before that await.
AfterGenerate(body, mkdirOk) ==
  IF ValidationResponse(body).code = 400 \/ FreshIds = {}
  THEN [dirs |-> dirs, pc |-> pc]
  ELSE IF mkdirOk
       THEN [dirs |-> dirs \cup {uuidv4}, pc |-> [pc EXCEPT ![uuidv4] = "authState"]]
       ELSE [dirs |-> dirs, pc |-> [pc EXCEPT ![uuidv4] = "failed"]]

GeneratePairCode(body, mkdirOk) ==
  /\ ValidationResponse(body).code = 400 \/ FreshIds # {}
  /\ dirs' = AfterGenerate(body, mkdirOk).dirs
  /\ pc' = AfterGenerate(body, mkdirOk).pc
  /\ UNCHANGED <<activeConnections, credsFiles, sock, timers, now>>

\* `await useMultiFileAuthState(sessionDir)` settles
AuthStateSettles(s, ok) ==
  /\ pc[s] = "authState"
  /\ IF ok THEN pc' = [pc EXCEPT ![s] = "version"] ELSE CreateFails(s)
  /\ UNCHANGED <<activeConnections, dirs, credsFiles, sock, timers, now>>

\* `await fetchLatestBaileysVersion()` settles; then makeWASocket, the
\* insert into activeConnections, both listeners, and the call of
\* requestPairingCode, up to its await
VersionSettles(s, ok) ==
  /\ pc[s] = "version"
  /\ IF ok
     THEN /\ activeConnections' = [activeConnections EXCEPT ![s] =
                [phoneNumber |-> <<"+", "1", "5">>, status |-> "connecting",
                 createdAt |-> now, qr |-> NoQr]]
          /\ sock' = [sock EXCEPT ![s] = "open"]
          /\ pc' = [pc EXCEPT ![s] = "pairing"]
     ELSE /\ CreateFails(s)
          /\ UNCHANGED <<activeConnections, sock>>
  /\ UNCHANGED <<dirs, credsFiles, timers, now>>

\* `await sock.requestPairingCode(...)` settles
PairingCodeSettles(s, ok) ==
  /\ pc[s] = "pairing"
  /\ IF ok THEN pc' = [pc EXCEPT ![s] = "done"] ELSE CreateFails(s)
  /\ UNCHANGED <<activeConnections, dirs, credsFiles, sock, timers, now>>

\* ---- sock.ev listeners --------------------------------------------------

\* a listener that takes every close for final
shouldReconnectNever(update) == FALSE

\* lastDisconnect?.error?.output?.statusCode !== DisconnectReason.loggedOut
shouldReconnect(update) == update.statusCode # DisconnectReason_loggedOut

\* a listener that marks the session as connecting again on a close the
\* socket will retry after
StatusAfterUpdateReconnecting(status, update) ==
  IF update.connection = "close"
  THEN IF update.statusCode = DisconnectReason_loggedOut THEN "failed" ELSE "connecting"
  ELSE IF update.connection = "open" THEN "connected" ELSE status

\* the status the connection.update listener leaves in the record
StatusAfterUpdate(status, update) ==
  IF update.connection = "close"
  THEN IF ~shouldReconnect(update) THEN "failed" ELSE status
  ELSE IF update.connection = "open" THEN "connected" ELSE status

\* a listener that keeps the first qr it was given
QrAfterUpdateKeepFirst(qr, update) == IF qr # NoQr THEN qr ELSE update.qr

\* if (qr) activeConnections[sessionId].qr = qr
QrAfterUpdate(qr, update) == IF update.qr # NoQr THEN update.qr ELSE qr

\* the record of a registered session once the listener has run
RecordAfterUpdate(connection, update) ==
  [connection EXCEPT !.qr = QrAfterUpdate(@, update),
                     !.status = StatusAfterUpdate(@, update)]

\* the listener reaches one of its writes to activeConnections[sessionId]
\* (lines 80, 89, 93) with the key gone: the write throws a TypeError, which
\* rejects the promise of the async listener
ListenerThrows(s, update) ==
  /\ activeConnections[s] = NULL
  /\ \/ update.qr # NoQr
     \/ update.connection = "close" /\ ~shouldReconnect(update)
     \/ update.connection = "open"

\* sock.ev.on('connection.update', ...): the listener closes over sessionId
\* and is never removed by this code, so it runs for every update the
\* socket emits.  With the key gone from activeConnections its writes throw
\* inside the async listener and nothing changes.
ConnectionUpdate(s, update) ==
  /\ sock[s] # "none"
  /\ IF activeConnections[s] = NULL
     THEN UNCHANGED activeConnections
     ELSE activeConnections' = [activeConnections EXCEPT ![s] =
            RecordAfterUpdate(@, update)]
  /\ UNCHANGED <<dirs, credsFiles, sock, pc, timers, now>>

\* sock.ev.on('creds.update', saveCreds): writes creds.json into sessionDir;
\* the write fails when the directory is gone
CredsUpdate(s) ==
  /\ sock[s] # "none"
  /\ credsFiles' = IF s \in dirs THEN credsFiles \cup {s} ELSE credsFiles
  /\ UNCHANGED <<activeConnections, dirs, sock, pc, timers, now>>

\* ---- GET /api/check-status/:sessionId ----------------------------------
CheckStatusResponse(s) ==
  IF activeConnections[s] = NULL
  THEN ErrorResponse(404, "Session not found")
  ELSE Response(200, "status", 0, activeConnections[s].status, activeConnections[s].qr)

CheckStatus(s) ==
  /\ CheckStatusResponse(s).code \in {200, 404}
  /\ UNCHANGED vars

\* ---- GET /api/get-qr/:sessionId ----------------------------------------
GetQrResponse(s) ==
  IF activeConnections[s] = NULL
  THEN ErrorResponse(404, "Session not found")
  ELSE IF activeConnections[s].qr = NoQr
       THEN ErrorResponse(404, "QR code not available yet")
       ELSE Response(200, "qr", 0, "undefined", activeConnections[s].qr)

GetQr(s) ==
  /\ GetQrResponse(s).code \in {200, 404}
  /\ UNCHANGED vars

\* ---- GET /api/download-creds/:sessionId --------------------------------

\* a handler that only refuses sessions still connecting
NotConnectedOnlyConnecting(connection) == connection.status = "connecting"

\* connection.status !== 'connected'
NotConnected(connection) == connection.status # "connected"

DownloadCredsResponse(s) ==
  IF activeConnections[s] = NULL
  THEN ErrorResponse(404, "Session not found")
  ELSE IF NotConnected(activeConnections[s])
       THEN ErrorResponse(400, "WhatsApp not connected yet")
       ELSE IF s \notin credsFiles
            THEN ErrorResponse(404, "Credentials file not found")
            ELSE Response(200, "creds.json", 0, "undefined", NoQr)

\* the timer the download would arm if it were armed as soon as the session
\* is found connected, before creds.json is looked for
TimersAfterDownloadBeforeRead(s) ==
  IF activeConnections[s] # NULL /\ ~NotConnected(activeConnections[s])
  THEN [timers EXCEPT ![s] = @ + 1]
  ELSE timers

\* the grace timers pending once the handler has run: on 200 it arms
\* setTimeout(cleanupSession, 5000)
TimersAfterDownload(s) ==
  IF DownloadCredsResponse(s).code = 200
  THEN [timers EXCEPT ![s] = @ + 1]
  ELSE timers

DownloadCreds(s) ==
  /\ TimersAfterDownload(s)[s] <= MaxTimers
  /\ timers' = TimersAfterDownload(s)
  /\ UNCHANGED <<activeConnections, dirs, credsFiles, sock, pc, now>>

\* ---- cleanupSession ----------------------------------------------------

\* the existsSync(sessionDir) branch is taken and fs.rmSync throws
RmSyncThrows(s, rmThrows) == s \in dirs /\ s \in rmThrows

\* cleanupSession run for every id of `called`, in one callback; rmThrows
\* are the ids for which fs.rmSync throws.  The runs for different ids touch
\* disjoint state, so their effects are given id by id.
\*   - sock.end() when the record is there
\*   - existsSync(sessionDir) => rmSync(sessionDir); a throw goes to the
\*     catch, which logs it, so the delete below is skipped
\*   - delete activeConnections[sessionId]
cleanupSession(called, rmThrows) ==
  /\ sock' = [s \in Ids |->
        IF s \in called /\ activeConnections[s] # NULL THEN "ended" ELSE sock[s]]
  /\ dirs' = dirs \ {s \in called : ~RmSyncThrows(s, rmThrows)}
  /\ credsFiles' = credsFiles \ {s \in called : ~RmSyncThrows(s, rmThrows)}
  /\ activeConnections' = [s \in Ids |->
        IF s \in called /\ ~RmSyncThrows(s, rmThrows) THEN NULL ELSE activeConnections[s]]

\* the download grace timer fires
GraceTimerFires(s, rmThrows) ==
  /\ timers[s] > 0
  /\ timers' = [timers EXCEPT ![s] = @ - 1]
  /\ cleanupSession({s}, rmThrows)
  /\ UNCHANGED <<pc, now>>

\* ---- expiry sweep ------------------------------------------------------

\* (now - connection.createdAt) / 60000
ageInMinutes(connection, at) == (at - connection.createdAt) \div MsPerMinute

\* the ids the sweep calls cleanupSession for
Expired(s, at) ==
  /\ activeConnections[s] # NULL
  /\ ageInMinutes(activeConnections[s], at) > MaxAgeMinutes

\* the setInterval callback, another SweepPeriodMs on: forEach over
\* Object.keys(activeConnections) with now = new Date()
ExpirySweep(rmThrows) ==
  /\ now < MaxTicks * SweepPeriodMs
  /\ now' = now + SweepPeriodMs
  /\ cleanupSession({s \in Ids : Expired(s, now')}, rmThrows)
  /\ UNCHANGED <<pc, timers>>

Next ==
  \/ (\E b \in Bodies, ok \in BOOLEAN : (PhoneMissing(b) => ok) /\ GeneratePairCode(b, ok)) /\ UNCHANGED feVars
  \/ (\E s \in Ids, ok \in BOOLEAN : AuthStateSettles(s, ok)) /\ UNCHANGED feVars
  \/ (\E s \in Ids, ok \in BOOLEAN : VersionSettles(s, ok)) /\ UNCHANGED feVars
  \/ (\E s \in Ids, ok \in BOOLEAN : PairingCodeSettles(s, ok)) /\ UNCHANGED feVars
  \/ (\E s \in Ids, u \in Updates : ConnectionUpdate(s, u)) /\ UNCHANGED feVars
  \/ (\E s \in Ids : CredsUpdate(s)) /\ UNCHANGED feVars
  \/ (\E s \in Ids : CheckStatus(s)) /\ UNCHANGED feVars
  \/ (\E s \in Ids : GetQr(s)) /\ UNCHANGED feVars
  \/ (\E s \in Ids : DownloadCreds(s)) /\ UNCHANGED feVars
  \/ (\E s \in Ids : \E F \in SUBSET {s} : GraceTimerFires(s, F)) /\ UNCHANGED feVars
  \/ (\E F \in SUBSET {s \in Ids : Expired(s, now + SweepPeriodMs)} : ExpirySweep(F)) /\ UNCHANGED feVars

Spec == Init /\ [][Next]_allVars

\* ---- frontend actions ---------------------------------------------------

\* clearInterval(id)
clearInterval(timersMade, id) ==
  [k \in DOMAIN timersMade |->
     IF k = id THEN [timersMade[k] EXCEPT !.live = FALSE] ELSE timersMade[k]]

\* if (statusCheckInterval) clearInterval(statusCheckInterval)
ClearIfSet(timersMade, statusCheckInterval) ==
  IF statusCheckInterval # NoInterval
  THEN clearInterval(timersMade, statusCheckInterval)
  ELSE timersMade

\* onChange of the input, rendered while status is idle
setPhoneNumber(value) ==
  /\ app.status = "idle"
  /\ app' = [app EXCEPT !.phoneNumber = value]
  /\ UNCHANGED <<intervals, requests, vars>>

\* the click on Generate Pair Code, up to the await of axios.post; the button
\* is rendered while status is idle. One POST is under way at a time.
generatePairCode ==
  /\ app.status = "idle"
  /\ IF app.phoneNumber = ""
     THEN /\ app' = [app EXCEPT !.error = "Please enter a phone number"]
          /\ UNCHANGED requests
     ELSE /\ \A r \in requests : r.url # "/api/generate-pair-code"
          /\ app' = [app EXCEPT !.status = "loading", !.error = ""]
          /\ requests' = requests \cup {PostRequest(app.statusCheckInterval)}
  /\ UNCHANGED <<intervals, vars>>

\* generatePairCode after the await. A success stores the server's fresh
\* sessionId, starts the timer, whose callback calls the checkStatus of the
\* render the click was made in, and stores the timer's id; the render that
\* follows runs the cleanup of the effect of the previous statusCheckInterval.
\* A failure shows the error.
generatePairCodeResumes(post, ok) ==
  /\ post \in requests
  /\ post.url = "/api/generate-pair-code"
  /\ requests' = requests \ {post}
  /\ IF ok
     THEN /\ Len(intervals) < MaxIntervals
          /\ LET interval == Len(intervals) + 1
             IN /\ intervals' = ClearIfSet(
                     Append(intervals,
                            [sessionId |-> interval,
                             statusCheckInterval |-> post.statusCheckInterval,
                             live |-> TRUE, last |-> "none"]),
                     app.statusCheckInterval)
                /\ app' = [app EXCEPT !.sessionId = interval,
                                      !.status = "codeGenerated",
                                      !.statusCheckInterval = interval]
     ELSE /\ app' = [app EXCEPT !.error = "Failed to generate pair code",
                                !.status = "idle"]
          /\ UNCHANGED intervals
  /\ UNCHANGED vars

\* a live timer fires and its callback calls checkStatus, up to the await
\* of axios.get; one GET of a timer is under way at a time
checkStatus(k) ==
  /\ k \in DOMAIN intervals
  /\ intervals[k].live
  /\ GetRequest(k) \notin requests
  /\ requests' = requests \cup {GetRequest(k)}
  /\ UNCHANGED <<app, intervals, vars>>

\* checkStatus after the await, with the statusCheckInterval of its render
checkStatusResumes(k, result) ==
  /\ GetRequest(k) \in requests
  /\ requests' = requests \ {GetRequest(k)}
  /\ app' = IF result = "connected"
            THEN [app EXCEPT !.status = "connected"]
            ELSE IF result = "failed"
                 THEN [app EXCEPT !.error = "Connection failed. Please try again.",
                                  !.status = "idle"]
                 ELSE app
  /\ intervals' = IF result \in {"connected", "failed"}
                  THEN ClearIfSet([intervals EXCEPT ![k].last = result],
                                  intervals[k].statusCheckInterval)
                  ELSE [intervals EXCEPT ![k].last = result]
  /\ UNCHANGED vars

\* the click on Generate New Credentials, rendered while status is connected
resetForm ==
  /\ app.status = "connected"
  /\ intervals' = ClearIfSet(intervals, app.statusCheckInterval)
  /\ app' = [app EXCEPT !.phoneNumber = "", !.sessionId = 0, !.status = "idle",
                        !.error = ""]
  /\ UNCHANGED <<requests, vars>>

FrontendNext ==
  \/ \E value \in PhoneInputs : setPhoneNumber(value)
  \/ generatePairCode
  \/ \E post \in requests, ok \in BOOLEAN : generatePairCodeResumes(post, ok)
  \/ \E k \in IntervalIds : checkStatus(k)
  \/ \E k \in IntervalIds, result \in PollResults : checkStatusResumes(k, result)
  \/ resetForm

FrontendSpec == FrontendInit /\ [][FrontendNext]_allVars


\* ---- properties ---------------------------------------------------------

Registered(s) == activeConnections[s] # NULL

\* cleanupSession is called for s in this step: by a grace timer of s, or
\* by the sweep, which calls it for the registered ids that are expired
CleanupCalled(s) ==
  \/ timers'[s] < timers[s]
  \/ now' # now /\ Expired(s, now')

\* C1: once `opened` has been delivered for S (its status is then
\* `connected`), getStatus(S) returns `connected` for as long as S is in the
\* registry, whatever event is delivered next.
C1_ConnectedNeverReverts ==
  [][\A s \in Ids :
       (Registered(s) /\ CheckStatusResponse(s).status = "connected" /\ Registered(s)')
         => CheckStatusResponse(s)'.status = "connected"]_vars

\* C2: once `closed` with the logged-out reason has been delivered for S
\* (its status is then `failed`), the status of S stays `failed` for as long
\* as S is in the registry, whatever event is delivered next.
C2_FailedNeverReverts ==
  [][\A s \in Ids :
       (Registered(s) /\ activeConnections[s].status = "failed" /\ Registered(s)')
         => activeConnections'[s].status = "failed"]_vars

\* C3: after a createSession that failed, the registry holds no record for
\* the id generated for that request.
C3_FailedCreateNotRegistered ==
  \A s \in Ids : GenerateResponse(s).code = 500 => ~Registered(s)

\* C4: after a createSession that failed, no storage directory exists for
\* the id generated for that request.
C4_FailedCreateLeavesNoDirectory ==
  \A s \in Ids : pc[s] = "failed" => s \notin dirs

\* C5: in every reachable state, downloadCredentials(S) for a session S
\* whose status is `connecting` or `failed` answers 400, sends no credential
\* content and arms no grace timer.
C5_DownloadRefusedUnlessConnected ==
  \A s \in Ids :
    (Registered(s) /\ activeConnections[s].status \in {"connecting", "failed"})
      => /\ DownloadCredsResponse(s).code = 400
         /\ DownloadCredsResponse(s).kind # "creds.json"
         /\ TimersAfterDownload(s) = timers

\* C5's case: creds.json is on disk for a registered session that is not
\* connected, so that the status test is all that refuses the download
C5_Witness ==
  \E s \in Ids :
    /\ Registered(s)
    /\ activeConnections[s].status = "failed"
    /\ s \in credsFiles
    /\ DownloadCredsResponse(s).code = 400

\* C6: the grace timer armed by a successful downloadCredentials(S) removes
\* S: once it has fired, S is not in the registry and its directory is gone.
C6_GraceTimerRemovesSession ==
  [][\A s \in Ids :
       timers'[s] < timers[s] => (~Registered(s)' /\ s \notin dirs')]_vars

\* C7: a teardown of S that follows an earlier teardown of S (which ended
\* the socket of S) leaves no registry entry and no directory for S.
C7_SecondTeardownLeavesNothing ==
  [][\A s \in Ids :
       (sock[s] = "ended" /\ CleanupCalled(s))
         => (~Registered(s)' /\ s \notin dirs')]_vars

\* C8: when a run of the expiry sweep completes, no session older than the
\* maximum age is in the registry, and the sessions that are not older are
\* as they were.
C8_SweepRemovesExpired ==
  [][now' # now =>
       \A s \in Ids :
         /\ Registered(s)' => ageInMinutes(activeConnections'[s], now') <= MaxAgeMinutes
         /\ (Registered(s) /\ ~Expired(s, now')) => activeConnections'[s] = activeConnections[s]]_vars

\* C9: a teardown of S in which destroying the directory fails (the
\* directory is there before and after) removes the registry entry all the same.
C9_TeardownRemovesEntryWhenDestroyFails ==
  [][\A s \in Ids :
       (CleanupCalled(s) /\ s \in dirs /\ s \in dirs') => ~Registered(s)']_vars

\* C10: in every reachable state, createSession with a missing or empty
\* phone number answers 400 and has no effect: no directory is made and no
\* id is taken for a request (so no handshake is started and nothing is
\* registered for it).
C10_EmptyPhoneRejectedWithoutEffect ==
  \A b \in Bodies, ok \in BOOLEAN :
    (~b.has \/ b.phoneNumber = <<>>)
      => /\ ValidationResponse(b).code = 400
         /\ AfterGenerate(b, ok).dirs = dirs
         /\ AfterGenerate(b, ok).pc = pc

\* C10's case: a request with the empty phone number is taken (and answered
\* 400) while a session is registered and has its directory, which the
\* request must leave as they are
C10_Witness ==
  \E b \in Bodies :
    /\ b.has /\ b.phoneNumber = <<>>
    /\ ValidationResponse(b).code = 400
    /\ ENABLED GeneratePairCode(b, TRUE)
    /\ \E s \in Ids : Registered(s) /\ s \in dirs

\* C11: a createSession that succeeds returns an id no earlier createSession
\* returned, and as it returns the session of that id is in the registry
\* with status `connecting`, whatever was delivered while the pairing-code
\* request was pending.
C11_CreatedSessionIsConnecting ==
  [][\A s \in Ids :
       (GenerateResponse(s).code # 200 /\ GenerateResponse(s)'.code = 200)
         => /\ \A t \in Ids :
                 GenerateResponse(t).code = 200
                   => GenerateResponse(t).sessionId # GenerateResponse(s)'.sessionId
            /\ Registered(s)'
            /\ CheckStatusResponse(s)'.status = "connecting"]_vars

\* C12: getScannableCode of a registered session for which no scannable code
\* has been issued answers 409, not the 404 of an unknown id.
C12_NoQrYetIsNot404 ==
  \A s \in Ids :
    (Registered(s) /\ activeConnections[s].qr = NoQr)
      => /\ GetQrResponse(s).code = 409
         /\ GetQrResponse(s).code # ErrorResponse(404, "Session not found").code

\* C13: a session whose status is `connected` or `failed` is not given the
\* status `connecting` again: no update makes the listener write it, and the
\* insert that writes it, made once for an id, is behind.
C13_NoReturnToConnecting ==
  \A s \in Ids :
    (Registered(s) /\ activeConnections[s].status \in {"connected", "failed"})
      => /\ \A u \in Updates :
              StatusAfterUpdate(activeConnections[s].status, u) # "connecting"
         /\ pc[s] \in {"pairing", "done", "failed"}

\* C13's case: a session in a terminal status, its create finished, whose
\* listener is still there to be handed a close
C13_Witness ==
  \E s \in Ids :
    /\ Registered(s)
    /\ activeConnections[s].status \in {"connected", "failed"}
    /\ pc[s] = "done"
    /\ \E u \in Updates : u.connection = "close" /\ ENABLED ConnectionUpdate(s, u)

\* the close updates whose reason is not the logged-out one
RetryableCloses ==
  {u \in Updates : u.connection = "close" /\ u.statusCode # DisconnectReason_loggedOut}

\* C14: a `closed` event whose reason is not the logged-out one leaves both
\* fields the listener writes, status and qr, of a registered session as
\* they are (a `connecting` session stays `connecting`), and a `connecting`
\* session has no grace timer pending, so
\* only the expiry sweep calls cleanupSession for it.
C14_RetryableCloseChangesNothing ==
  \A s \in Ids :
    Registered(s) =>
      /\ \A u \in RetryableCloses :
           /\ StatusAfterUpdate(activeConnections[s].status, u) = activeConnections[s].status
           /\ QrAfterUpdate(activeConnections[s].qr, u) = activeConnections[s].qr
      /\ activeConnections[s].status = "connecting" => timers[s] = 0

\* C14's case: a session still `connecting` after a run of the sweep, with
\* its listener there to be handed such a close
C14_Witness ==
  \E s \in Ids :
    /\ Registered(s)
    /\ activeConnections[s].status = "connecting"
    /\ now > activeConnections[s].createdAt
    /\ \E u \in RetryableCloses : ENABLED ConnectionUpdate(s, u)

\* C15: for a registered session, an update with a scannable code p leaves p
\* in the record, whatever code was there, and leaves the status as it is;
\* an update without one leaves the code as it is; and getScannableCode and
\* getStatus return the code of the record.
C15_LatestQrIsReturned ==
  \A s \in Ids :
    Registered(s) =>
      /\ \A u \in Updates :
           IF u.qr # NoQr
           THEN /\ QrAfterUpdate(activeConnections[s].qr, u) = u.qr
                /\ StatusAfterUpdate(activeConnections[s].status, u) = activeConnections[s].status
           ELSE QrAfterUpdate(activeConnections[s].qr, u) = activeConnections[s].qr
      /\ CheckStatusResponse(s).qr = activeConnections[s].qr
      /\ activeConnections[s].qr # NoQr
           => (GetQrResponse(s).code = 200 /\ GetQrResponse(s).qr = activeConnections[s].qr)

\* C15's case: a code is in the record, is what both requests return, and
\* the listener is there to be handed another one
C15_Witness ==
  \E s \in Ids :
    /\ Registered(s)
    /\ activeConnections[s].qr = "qr2"
    /\ GetQrResponse(s).qr = "qr2"
    /\ CheckStatusResponse(s).qr = "qr2"
    /\ \E u \in Updates : u.qr = "qr1" /\ ENABLED ConnectionUpdate(s, u)

\* C16: an update handed to the listener of a session that cleanupSession
\* has removed raises no error.
C16_LateUpdateRaisesNoError ==
  \A s \in Ids :
    (sock[s] = "ended" /\ ~Registered(s))
      => \A u \in Updates : ~ListenerThrows(s, u)

\* C17: every registered session has its directory, and every directory is
\* that of a registered session or of a create still in progress.
C17_RegistryMatchesDirectories ==
  \A s \in Ids :
    /\ Registered(s) => s \in dirs
    /\ s \in dirs => (Registered(s) \/ pc[s] \in {"authState", "version", "pairing"})

\* C18: a download that is not answered with the file is answered with an
\* error and arms no grace timer.
C18_FailedDownloadArmsNoTimer ==
  \A s \in Ids :
    DownloadCredsResponse(s).code # 200
      => /\ DownloadCredsResponse(s).code \in {400, 404}
         /\ TimersAfterDownload(s) = timers

\* C18's case: a connected session whose creds.json has not been written, for
\* which the download is answered 404
C18_Witness ==
  \E s \in Ids :
    /\ Registered(s)
    /\ activeConnections[s].status = "connected"
    /\ s \notin credsFiles
    /\ DownloadCredsResponse(s).code = 404
    /\ ENABLED DownloadCreds(s)

\* C19: cleanupSession calls sock.end() (it does for a registered session)
\* only on a socket it has not ended before.
C19_SocketEndedOnce ==
  [][\A s \in Ids :
       (CleanupCalled(s) /\ Registered(s)) => sock[s] # "ended"]_vars

\* C20: a timer whose last check-status request came back `connected` or
\* `failed` is cleared, so it issues no further request.
C20_PollingStopsOnTerminalStatus ==
  \A k \in DOMAIN intervals :
    intervals[k].last \in {"connected", "failed"} => ~intervals[k].live
====
